---- MODULE Spec2Model ----
(***************************************************************************)
(* Model of azure_inventory_mde.py: an Ansible dynamic inventory built     *)
(* from two Azure Resource Graph queries (VMs, NICs) and the Microsoft     *)
(* Graph security-machines endpoint, with a TTL file cache.                *)
(*                                                                         *)
(* Python strings are sequences of one-character strings; None is the      *)
(* one-element sequence <<"None">>, which no string equals. Python dicts   *)
(* are sequences of <<key, value>> pairs in insertion order.               *)
(***************************************************************************)
EXTENDS Integers, Sequences, FiniteSets, TLC

(***************************************************************************)
(* Python str / dict primitives used by the program                        *)
(***************************************************************************)
None == <<"None">>

\* the characters of the model's alphabet that str.strip() removes
Whitespace == {" ", "\t", "\n", "\r", "\f"}

UpperCase == <<"A","B","C","D","E","F","G","H","I","J","K","L","M",
               "N","O","P","Q","R","S","T","U","V","W","X","Y","Z">>

LowerCase == <<"a","b","c","d","e","f","g","h","i","j","k","l","m",
               "n","o","p","q","r","s","t","u","v","w","x","y","z">>

LowerChar(c) ==
    IF \E i \in 1..26 : UpperCase[i] = c
    THEN LowerCase[CHOOSE i \in 1..26 : UpperCase[i] = c]
    ELSE c

\* str.lower()
lower(s) == [i \in 1..Len(s) |-> LowerChar(s[i])]

RECURSIVE lstrip(_)
lstrip(s) ==
    IF s # <<>> /\ Head(s) \in Whitespace THEN lstrip(Tail(s)) ELSE s

RECURSIVE rstrip(_)
rstrip(s) ==
    IF s # <<>> /\ s[Len(s)] \in Whitespace
    THEN rstrip(SubSeq(s, 1, Len(s) - 1))
    ELSE s

\* str.strip()
strip(s) == rstrip(lstrip(s))

\* sub in s
Contains(sub, s) ==
    \E i \in 0..(Len(s) - Len(sub)) : SubSeq(s, i + 1, i + Len(sub)) = sub

RECURSIVE FirstLabel(_)
\* s.split(".")[0]
FirstLabel(s) ==
    IF s = <<>> \/ Head(s) = "." THEN <<>>
    ELSE <<Head(s)>> \o FirstLabel(Tail(s))

\* (v or "")
OrEmpty(v) == IF v = None THEN <<>> ELSE v

\* (v or None)
OrNone(v) == IF v = <<>> THEN None ELSE v

\* bool(v) of a str-or-None value
Truthy(v) == v # None /\ v # <<>>

\* d.get(key) of a JSON object, None when the key is absent
Get(d, key) == IF key \in DOMAIN d THEN d[key] ELSE None

\* an exception that nothing catches: the value of a computation it ended
Raised(exc) == [raised |-> exc]

IsRaised(x) == DOMAIN x = {"raised"}

DictHas(d, k) == \E i \in 1..Len(d) : d[i][1] = k

\* d.get(k), None when absent
DictGet(d, k) ==
    IF DictHas(d, k)
    THEN d[CHOOSE i \in 1..Len(d) : d[i][1] = k][2]
    ELSE None

\* d[k] = v: a new key is appended, an existing key keeps its position
DictSet(d, k, v) ==
    IF DictHas(d, k)
    THEN [i \in 1..Len(d) |-> IF d[i][1] = k THEN <<k, v>> ELSE d[i]]
    ELSE Append(d, <<k, v>>)

DictKeys(d) == [i \in 1..Len(d) |-> d[i][1]]

Count(seq, x) == Cardinality({i \in 1..Len(seq) : seq[i] = x})

Elems(seq) == {seq[i] : i \in 1..Len(seq)}

(***************************************************************************)
(* Tuning knobs                                                            *)
(***************************************************************************)
CACHE_TTL_SECONDS == 300

APPLIANCE_PUBLISHERS ==
    { <<"c","i","t","r","i","x">>,
      <<"b","a","r","r","a","c","u","d","a","n","e","t","w","o","r","k","s">>,
      <<"f","5","-","n","e","t","w","o","r","k","s">>,
      <<"p","a","l","o","a","l","t","o","n","e","t","w","o","r","k","s">>,
      <<"f","o","r","t","i","n","e","t">>,
      <<"s","o","p","h","o","s">>,
      <<"c","h","e","c","k","p","o","i","n","t">>,
      <<"c","i","s","c","o">> }

Linux == <<"L","i","n","u","x">>

Windows == <<"W","i","n","d","o","w","s">>

(***************************************************************************)
(* empty_inventory and the join of main                                    *)
(***************************************************************************)
empty_inventory ==
    [ _meta |-> [hostvars |-> <<>>],
      all |-> [hosts |-> <<>>],
      linux |-> [hosts |-> <<>>],
      windows |-> [hosts |-> <<>>],
      network_appliances |-> [hosts |-> <<>>],
      windows_mde_onboarded |-> [hosts |-> <<>>],
      windows_mde_not_onboarded |-> [hosts |-> <<>>] ]

RECURSIVE nic_ip_map(_)
\* step 3 of main: NIC id -> private IP, later records overwrite earlier ones
nic_ip_map(nics) ==
    IF nics = <<>> THEN <<>>
    ELSE LET n == Len(nics)
             nic == nics[n]
             m == nic_ip_map(SubSeq(nics, 1, n - 1))
         IN IF Truthy(Get(nic, "id"))
            THEN DictSet(m, Get(nic, "id"),
                         OrNone(strip(OrEmpty(Get(nic, "privateIp")))))
            ELSE m

\* fault: the publisher is compared without lower-casing it
is_appliance_exact(vm) ==
    \E p \in APPLIANCE_PUBLISHERS : Contains(p, OrEmpty(vm.publisher))

is_appliance(vm) ==
    \E p \in APPLIANCE_PUBLISHERS : Contains(p, lower(OrEmpty(vm.publisher)))

is_onboarded(vm, name, mde_windows_keys) ==
    \/ lower(OrEmpty(Get(vm, "id"))) \in mde_windows_keys
    \/ lower(name) \in mde_windows_keys

AddHost(inventory, group, name) ==
    [inventory EXCEPT ![group].hosts = Append(@, name)]

\* fault: the final else branch adds the host to no group
JoinOne_no_default(inventory, vm, ipmap, mde_windows_keys) ==
    LET name == strip(OrEmpty(Get(vm, "name"))) IN
    IF name = <<>> THEN inventory
    ELSE IF "publisher" \notin DOMAIN vm THEN Raised("KeyError")
    ELSE
      LET nic_id == Get(vm, "nicId")
          ip == DictGet(ipmap, nic_id)
          os_type == Get(vm, "osType")
          hv == [ ansible_host |-> ip,
                  private_ip |-> ip,
                  resource_group |-> Get(vm, "resourceGroup"),
                  location |-> Get(vm, "location"),
                  os_type |-> os_type,
                  nic_id |-> nic_id ]
          i1 == [AddHost(inventory, "all", name) EXCEPT
                   !["_meta"].hostvars = DictSet(@, name, hv)]
      IN
      IF os_type = Linux /\ ~is_appliance(vm)
        THEN AddHost(i1, "linux", name)
      ELSE IF os_type = Linux /\ is_appliance(vm)
        THEN AddHost(i1, "network_appliances", name)
      ELSE IF os_type = Windows
        THEN LET onb == is_onboarded(vm, name, mde_windows_keys)
                 i2 == [AddHost(i1, "windows", name) EXCEPT
                          !["_meta"].hostvars =
                              DictSet(@, name, hv @@ [mde_onboarded |-> onb])]
             IN IF onb THEN AddHost(i2, "windows_mde_onboarded", name)
                ELSE AddHost(i2, "windows_mde_not_onboarded", name)
      ELSE i1

\* the body of the loop "for vm in vms" for one record: the inventory with
\* the record added, or the KeyError of vm["publisher"] (line 223), which
\* the loop evaluates for every record that has a name
JoinOne(inventory, vm, ipmap, mde_windows_keys) ==
    LET name == strip(OrEmpty(Get(vm, "name"))) IN
    IF name = <<>> THEN inventory
    ELSE IF "publisher" \notin DOMAIN vm THEN Raised("KeyError")
    ELSE
      LET nic_id == Get(vm, "nicId")
          ip == DictGet(ipmap, nic_id)
          os_type == Get(vm, "osType")
          hv == [ ansible_host |-> ip,
                  private_ip |-> ip,
                  resource_group |-> Get(vm, "resourceGroup"),
                  location |-> Get(vm, "location"),
                  os_type |-> os_type,
                  nic_id |-> nic_id ]
          i1 == [AddHost(inventory, "all", name) EXCEPT
                   !["_meta"].hostvars = DictSet(@, name, hv)]
      IN
      IF os_type = Linux /\ ~is_appliance(vm)
        THEN AddHost(i1, "linux", name)
      ELSE IF os_type = Linux /\ is_appliance(vm)
        THEN AddHost(i1, "network_appliances", name)
      ELSE IF os_type = Windows
        THEN LET onb == is_onboarded(vm, name, mde_windows_keys)
                 i2 == [AddHost(i1, "windows", name) EXCEPT
                          !["_meta"].hostvars =
                              DictSet(@, name, hv @@ [mde_onboarded |-> onb])]
             IN IF onb THEN AddHost(i2, "windows_mde_onboarded", name)
                ELSE AddHost(i2, "windows_mde_not_onboarded", name)
      ELSE AddHost(i1, "windows", name)

RECURSIVE JoinLoop(_, _, _, _)
JoinLoop(inventory, vms, ipmap, mde_windows_keys) ==
    IF vms = <<>> THEN inventory
    ELSE LET next == JoinOne(inventory, Head(vms), ipmap, mde_windows_keys)
         IN IF IsRaised(next) THEN next
            ELSE JoinLoop(next, Tail(vms), ipmap, mde_windows_keys)

\* fault: the short cut returns a bare inventory without the six groups
BuildInventory_bare(vms, nics, mde_windows_keys) ==
    IF vms = <<>> THEN [_meta |-> [hostvars |-> <<>>]]
    ELSE JoinLoop(empty_inventory, vms, nic_ip_map(nics), mde_windows_keys)

\* steps 3-4 of main, with the "if not vms" short cut
BuildInventory(vms, nics, mde_windows_keys) ==
    IF vms = <<>> THEN empty_inventory
    ELSE JoinLoop(empty_inventory, vms, nic_ip_map(nics), mde_windows_keys)

(***************************************************************************)
(* json.dumps / json.dump of an inventory. A JSON value is a tagged record; *)
(* the text is a sequence of characters. The model's strings hold no       *)
(* character that json escapes.                                            *)
(***************************************************************************)
JStr(s) == [t |-> "str", v |-> s]

JNull == [t |-> "null"]

JBool(b) == [t |-> "bool", v |-> b]

JList(items) == [t |-> "list", v |-> items]

\* members: a sequence of <<key, value>> in dict order
JDict(members) == [t |-> "dict", v |-> members]

JStrOrNull(v) == IF v = None THEN JNull ELSE JStr(v)

K_meta == <<"_","m","e","t","a">>

K_hostvars == <<"h","o","s","t","v","a","r","s">>

K_hosts == <<"h","o","s","t","s">>

K_all == <<"a","l","l">>

K_linux == <<"l","i","n","u","x">>

K_windows == <<"w","i","n","d","o","w","s">>

K_network_appliances ==
    <<"n","e","t","w","o","r","k","_","a","p","p","l","i","a","n","c","e","s">>

K_windows_mde_onboarded ==
    <<"w","i","n","d","o","w","s","_","m","d","e","_",
      "o","n","b","o","a","r","d","e","d">>

K_windows_mde_not_onboarded ==
    <<"w","i","n","d","o","w","s","_","m","d","e","_","n","o","t","_",
      "o","n","b","o","a","r","d","e","d">>

K_ansible_host == <<"a","n","s","i","b","l","e","_","h","o","s","t">>

K_private_ip == <<"p","r","i","v","a","t","e","_","i","p">>

K_resource_group ==
    <<"r","e","s","o","u","r","c","e","_","g","r","o","u","p">>

K_location == <<"l","o","c","a","t","i","o","n">>

K_os_type == <<"o","s","_","t","y","p","e">>

K_nic_id == <<"n","i","c","_","i","d">>

K_mde_onboarded == <<"m","d","e","_","o","n","b","o","a","r","d","e","d">>

\* the per-host dict of lines 214-221, plus the key line 243 adds
HostVarsJson(hv) ==
    JDict(<< <<K_ansible_host, JStrOrNull(hv.ansible_host)>>,
             <<K_private_ip, JStrOrNull(hv.private_ip)>>,
             <<K_resource_group, JStrOrNull(hv.resource_group)>>,
             <<K_location, JStrOrNull(hv.location)>>,
             <<K_os_type, JStrOrNull(hv.os_type)>>,
             <<K_nic_id, JStrOrNull(hv.nic_id)>> >>
          \o (IF "mde_onboarded" \in DOMAIN hv
              THEN << <<K_mde_onboarded, JBool(hv.mde_onboarded)>> >>
              ELSE <<>>))

GroupJson(g) ==
    JDict(<< <<K_hosts, JList([i \in 1..Len(g.hosts) |-> JStr(g.hosts[i])])>> >>)

\* the member of the inventory dict for one group, when the dict has the key
GroupMember(inventory, key, field) ==
    IF field \in DOMAIN inventory
    THEN << <<key, GroupJson(inventory[field])>> >>
    ELSE <<>>

HostVarsDictJson(hostvars) ==
    JDict([i \in 1..Len(hostvars) |->
              <<hostvars[i][1], HostVarsJson(hostvars[i][2])>>])

\* the inventory dict as a JSON value: the keys it has, in the order
\* empty_inventory inserts them
ToJson(inventory) ==
    JDict(<< <<K_meta,
               JDict(<< <<K_hostvars,
                          HostVarsDictJson(inventory["_meta"].hostvars)>> >>)>> >>
          \o GroupMember(inventory, K_all, "all")
          \o GroupMember(inventory, K_linux, "linux")
          \o GroupMember(inventory, K_windows, "windows")
          \o GroupMember(inventory, K_network_appliances, "network_appliances")
          \o GroupMember(inventory, K_windows_mde_onboarded,
                         "windows_mde_onboarded")
          \o GroupMember(inventory, K_windows_mde_not_onboarded,
                         "windows_mde_not_onboarded"))

Quote(s) == <<"\"">> \o s \o <<"\"">>

RECURSIVE Spaces(_)
Spaces(n) == IF n <= 0 THEN <<>> ELSE <<" ">> \o Spaces(n - 1)

\* newline_indent of the encoder: nothing when indent is None (here: negative)
NewlineIndent(indent, level) ==
    IF indent < 0 THEN <<>> ELSE <<"\n">> \o Spaces(indent * level)

\* item_separator: ", " when indent is None, "," otherwise
ItemSeparator(indent) == IF indent < 0 THEN <<",", " ">> ELSE <<",">>

RECURSIVE Encode(_, _, _), EncodeItems(_, _, _, _), EncodeMembers(_, _, _, _)
\* JSONEncoder.iterencode, joined
Encode(j, indent, level) ==
    CASE j.t = "str" -> Quote(j.v)
      [] j.t = "null" -> <<"n","u","l","l">>
      [] j.t = "bool" -> IF j.v THEN <<"t","r","u","e">>
                         ELSE <<"f","a","l","s","e">>
      [] j.t = "list" ->
           IF j.v = <<>> THEN <<"[", "]">>
           ELSE <<"[">> \o NewlineIndent(indent, level + 1)
                \o EncodeItems(j.v, 1, indent, level + 1)
                \o NewlineIndent(indent, level) \o <<"]">>
      [] j.t = "dict" ->
           IF j.v = <<>> THEN <<"{", "}">>
           ELSE <<"{">> \o NewlineIndent(indent, level + 1)
                \o EncodeMembers(j.v, 1, indent, level + 1)
                \o NewlineIndent(indent, level) \o <<"}">>

EncodeItems(items, i, indent, level) ==
    Encode(items[i], indent, level)
    \o (IF i = Len(items) THEN <<>>
        ELSE ItemSeparator(indent) \o NewlineIndent(indent, level)
             \o EncodeItems(items, i + 1, indent, level))

EncodeMembers(members, i, indent, level) ==
    Quote(members[i][1]) \o <<":", " ">> \o Encode(members[i][2], indent, level)
    \o (IF i = Len(members) THEN <<>>
        ELSE ItemSeparator(indent) \o NewlineIndent(indent, level)
             \o EncodeMembers(members, i + 1, indent, level))

\* json.dumps(inventory, indent=indent)
dumps(inventory, indent) == Encode(ToJson(inventory), indent, 0)

\* the text json.dump(payload, f) writes: indent is None
dump(payload) == Encode(ToJson(payload), -1, 0)

(***************************************************************************)
(* json.loads of a text, as the consumer of the printed or cached document *)
(* reads it: the JSON value, or JsonInvalid when the text is not one JSON  *)
(* document                                                                *)
(***************************************************************************)
JsonInvalid == [t |-> "invalid"]

ParseFailed == [ok |-> FALSE]

Parsed(value, next) == [ok |-> TRUE, v |-> value, next |-> next]

RECURSIVE SkipWs(_, _)
SkipWs(s, i) ==
    IF i <= Len(s) /\ s[i] \in {" ", "\n", "\t", "\r"} THEN SkipWs(s, i + 1)
    ELSE i

RECURSIVE FindQuote(_, _)
\* the index of the next double quote from i on, 0 when there is none
FindQuote(s, i) ==
    IF i > Len(s) THEN 0
    ELSE IF s[i] = "\"" THEN i
    ELSE FindQuote(s, i + 1)

HasAt(s, i, literal) ==
    /\ i + Len(literal) - 1 <= Len(s)
    /\ SubSeq(s, i, i + Len(literal) - 1) = literal

RECURSIVE ParseValue(_, _), ParseItems(_, _, _), ParseMembers(_, _, _)
ParseValue(s, from) ==
    LET i == SkipWs(s, from) IN
    IF i > Len(s) THEN ParseFailed
    ELSE IF s[i] = "\""
      THEN LET j == FindQuote(s, i + 1) IN
           IF j = 0 THEN ParseFailed
           ELSE Parsed(JStr(SubSeq(s, i + 1, j - 1)), j + 1)
    ELSE IF HasAt(s, i, <<"n","u","l","l">>) THEN Parsed(JNull, i + 4)
    ELSE IF HasAt(s, i, <<"t","r","u","e">>) THEN Parsed(JBool(TRUE), i + 4)
    ELSE IF HasAt(s, i, <<"f","a","l","s","e">>)
      THEN Parsed(JBool(FALSE), i + 5)
    ELSE IF s[i] = "[" THEN ParseItems(s, i + 1, <<>>)
    ELSE IF s[i] = "{" THEN ParseMembers(s, i + 1, <<>>)
    ELSE ParseFailed

\* the items of a list after "[" or ",", up to and with "]"
ParseItems(s, from, acc) ==
    LET i == SkipWs(s, from) IN
    IF i > Len(s) THEN ParseFailed
    ELSE IF s[i] = "]" /\ acc = <<>> THEN Parsed(JList(<<>>), i + 1)
    ELSE
      LET item == ParseValue(s, i) IN
      IF ~item.ok THEN ParseFailed
      ELSE
        LET k == SkipWs(s, item.next) IN
        IF k > Len(s) THEN ParseFailed
        ELSE IF s[k] = "," THEN ParseItems(s, k + 1, Append(acc, item.v))
        ELSE IF s[k] = "]" THEN Parsed(JList(Append(acc, item.v)), k + 1)
        ELSE ParseFailed

\* the members of an object after "{" or ",", up to and with "}"
ParseMembers(s, from, acc) ==
    LET i == SkipWs(s, from) IN
    IF i > Len(s) THEN ParseFailed
    ELSE IF s[i] = "}" /\ acc = <<>> THEN Parsed(JDict(<<>>), i + 1)
    ELSE IF s[i] # "\"" THEN ParseFailed
    ELSE
      LET j == FindQuote(s, i + 1)
          c == SkipWs(s, j + 1)
      IN
      IF j = 0 \/ c > Len(s) THEN ParseFailed
      ELSE IF s[c] # ":" THEN ParseFailed
      ELSE
        LET key == SubSeq(s, i + 1, j - 1)
            item == ParseValue(s, c + 1)
        IN
        IF ~item.ok THEN ParseFailed
        ELSE
          LET k == SkipWs(s, item.next) IN
          IF k > Len(s) THEN ParseFailed
          ELSE IF s[k] = ","
            THEN ParseMembers(s, k + 1, Append(acc, <<key, item.v>>))
          ELSE IF s[k] = "}"
            THEN Parsed(JDict(Append(acc, <<key, item.v>>)), k + 1)
          ELSE ParseFailed

loads(s) ==
    LET r == ParseValue(s, 1) IN
    IF r.ok /\ SkipWs(s, r.next) > Len(s) THEN r.v ELSE JsonInvalid

(***************************************************************************)
(* The external command: one az call ends in a timeout, in another         *)
(* exception of subprocess.run, or in a completed process [returncode,     *)
(* stdout]. stdout is [raw, parsed]: raw is the text as far as the blank   *)
(* test reads it, parsed is what json.loads makes of it (JSONDecodeError   *)
(* when it raises). A JSON object is a record that has exactly the keys    *)
(* present; a JSON value that is no object is NotAnObject.                 *)
(***************************************************************************)
JSONDecodeError == [error |-> "JSONDecodeError"]

TimeoutExpired == [timeout |-> TRUE]

\* subprocess.run raises something az() and its callers do not catch:
\* FileNotFoundError (no az executable), UnicodeDecodeError (text=True)
AzRaises(exc) == [timeout |-> FALSE, raises |-> exc]

AzRaised(r) == "raises" \in DOMAIN r

\* a JSON array, string, number, true, false or null; truthy is bool() of it
NotAnObject(truthy) == [notdict |-> TRUE, truthy |-> truthy]

IsObject(parsed) == "notdict" \notin DOMAIN parsed

Completed(returncode, raw, parsed) ==
    [timeout |-> FALSE, returncode |-> returncode,
     stdout |-> [raw |-> raw, parsed |-> parsed]]

\* payload.get(key) for a key holding a string
GetStr(payload, key) == IF key \in DOMAIN payload THEN payload[key] ELSE None

\* JSON null under a key that holds a list of records
Null == << [null |-> TRUE] >>

\* payload.get(key) or [] for a key holding a list or null
GetList(payload, key) ==
    IF key \in DOMAIN payload /\ payload[key] # Null THEN payload[key]
    ELSE <<>>

\* a or b, for str-or-None values
Or(a, b) == IF Truthy(a) THEN a ELSE b

\* fault: a failed call is tried again, from the first page
graph_query_iter_retry(results, r) ==
    IF AzRaised(r) THEN Raised(r.raises)
    ELSE IF r.timeout \/ r.returncode # 0 \/ strip(r.stdout.raw) = <<>>
       \/ r.stdout.parsed = JSONDecodeError
      THEN [returned |-> FALSE, results |-> <<>>, skip_token |-> None]
    ELSE IF ~IsObject(r.stdout.parsed) THEN Raised("AttributeError")
    ELSE
      LET payload == r.stdout.parsed
          extended == results \o GetList(payload, "data")
          skip_token == OrNone(OrEmpty(Or(GetStr(payload, "skipToken"),
                                          GetStr(payload, "skip_token"))))
      IN IF ~Truthy(skip_token)
         THEN [returned |-> TRUE, value |-> extended]
         ELSE [returned |-> FALSE, results |-> extended,
               skip_token |-> skip_token]

\* fault: a failed call returns the pages fetched so far
graph_query_iter_partial(results, r) ==
    IF r.timeout
      THEN [returned |-> TRUE, value |-> results]
    ELSE IF AzRaised(r)
      THEN Raised(r.raises)
    ELSE IF r.returncode # 0 \/ strip(r.stdout.raw) = <<>>
      THEN [returned |-> TRUE, value |-> results]
    ELSE IF r.stdout.parsed = JSONDecodeError
      THEN [returned |-> TRUE, value |-> results]
    ELSE IF ~IsObject(r.stdout.parsed)
      THEN Raised("AttributeError")
    ELSE
      LET payload == r.stdout.parsed
          extended == results \o GetList(payload, "data")
          skip_token == OrNone(OrEmpty(Or(GetStr(payload, "skipToken"),
                                          GetStr(payload, "skip_token"))))
      IN IF ~Truthy(skip_token)
         THEN [returned |-> TRUE, value |-> extended]
         ELSE [returned |-> FALSE, results |-> extended,
               skip_token |-> skip_token]

\* one pass of the loop of graph_query_all on the answer r of the az call:
\* the function returns value, or the loop goes on, or an exception that is
\* not caught leaves the function (from az(), or from payload.get at line
\* 130 when the JSON value is no object)
graph_query_iter(results, r) ==
    IF r.timeout
      THEN [returned |-> TRUE, value |-> <<>>]
    ELSE IF AzRaised(r)
      THEN Raised(r.raises)
    ELSE IF r.returncode # 0 \/ strip(r.stdout.raw) = <<>>
      THEN [returned |-> TRUE, value |-> <<>>]
    ELSE IF r.stdout.parsed = JSONDecodeError
      THEN [returned |-> TRUE, value |-> <<>>]
    ELSE IF ~IsObject(r.stdout.parsed)
      THEN Raised("AttributeError")
    ELSE
      LET payload == r.stdout.parsed
          data == GetList(payload, "data")
          extended == results \o data
          skip_token == OrNone(OrEmpty(Or(GetStr(payload, "skipToken"),
                                          GetStr(payload, "skip_token"))))
      IN IF ~Truthy(skip_token)
         THEN [returned |-> TRUE, value |-> extended]
         ELSE [returned |-> FALSE, results |-> extended,
               skip_token |-> skip_token]

NoPayload == [none |-> TRUE]

\* the payload, None, or the exception of az() that is not caught
graph_api_get(r) ==
    IF r.timeout THEN NoPayload
    ELSE IF AzRaised(r) THEN Raised(r.raises)
    ELSE IF r.returncode # 0 \/ strip(r.stdout.raw) = <<>> THEN NoPayload
    ELSE IF r.stdout.parsed = JSONDecodeError THEN NoPayload
    ELSE r.stdout.parsed

\* not payload: None, the empty object, or a falsy value that is no object
Falsy(payload) ==
    \/ payload = NoPayload
    \/ DOMAIN payload = {}
    \/ ~IsObject(payload) /\ ~payload.truthy

MDE_URL ==
    <<"h","t","t","p","s",":","/","/","g","r","a","p","h",".","m","i","c",
      "r","o","s","o","f","t",".","c","o","m","/","v","1",".","0","/","s",
      "e","c","u","r","i","t","y","/","m","a","c","h","i","n","e","s","?",
      "$","t","o","p","=","1","0","0","0">>

\* the keys one machine record adds (lines 60-67)
machine_keys(m) ==
    IF Get(m, "osPlatform") # Windows THEN {}
    ELSE (IF Truthy(Get(m, "azureVmId")) THEN {lower(m.azureVmId)} ELSE {})
         \cup (IF Truthy(Get(m, "computerDnsName"))
               THEN {lower(FirstLabel(m.computerDnsName))} ELSE {})

\* one pass of the loop of get_mde_windows_machine_keys: the function
\* returns value, or the loop goes on, or an exception leaves the function
\* (from az(), from payload.get on a value that is no object, or from the
\* for loop over "value": null, line 59)
mde_keys_iter(keys, r) ==
    LET payload == graph_api_get(r) IN
    IF IsRaised(payload)
      THEN payload
    ELSE IF Falsy(payload)
      THEN [returned |-> TRUE, value |-> keys]
    ELSE IF ~IsObject(payload)
      THEN Raised("AttributeError")
    ELSE IF "value" \in DOMAIN payload /\ payload["value"] = Null
      THEN Raised("TypeError")
    ELSE
      LET value == GetList(payload, "value")
          added == UNION {machine_keys(value[i]) : i \in 1..Len(value)}
          url == GetStr(payload, "@odata.nextLink")
      IN IF ~Truthy(url)
         THEN [returned |-> TRUE, value |-> keys \cup added]
         ELSE [returned |-> FALSE, keys |-> keys \cup added, url |-> url]

(***************************************************************************)
(* State                                                                   *)
(***************************************************************************)
Procs == {1, 2}

VARIABLES
    now,     \* time.time(), in seconds
    file,    \* CACHE_FILE: [exists, mtime, content]
    run,     \* per process: position in main ("raised": ended by an
             \* exception nothing caught, named in error) and its locals
    calls,   \* per process: the az calls of the data source being fetched
    out,     \* per process: what the run printed, in order
    saved    \* history: the last save_cache call that opened the file (its
             \* payload, how far the write got), the process of the last
             \* write, and the last payload that opened the file in a run
             \* whose VM query returned records

vars == <<now, file, run, calls, out, saved>>

\* the locals of a run that has not started
FreshRun ==
    [ pc |-> "load_check",
      error |-> "none",
      cached |-> None,
      results |-> <<>>, skip_token |-> None,
      url |-> MDE_URL, keys |-> {},
      vms |-> <<>>, nics |-> <<>>, mde_windows_keys |-> {},
      inventory |-> empty_inventory,
      wpos |-> 0, wbuf |-> <<>>,
      load_seen |-> [exists |-> FALSE, age |-> 0],
      read_failed |-> FALSE, save_failed |-> FALSE ]

NoSave ==
    [ p |-> 1, payload |-> empty_inventory, state |-> "none", writer |-> 1,
      any_good |-> FALSE, good |-> empty_inventory ]

NoFile == [exists |-> FALSE, mtime |-> 0, content |-> <<>>]

pcOf(p) == run[p].pc

(***************************************************************************)
(* The cache file                                                          *)
(***************************************************************************)
Max(a, b) == IF a >= b THEN a ELSE b

\* write(2) of chunk at offset pos of a file opened without O_APPEND
WriteAt(content, pos, chunk) ==
    [i \in 1..Max(Len(content), pos + Len(chunk)) |->
        IF i > pos /\ i <= pos + Len(chunk) THEN chunk[i - pos]
        ELSE IF i <= Len(content) THEN content[i]
        ELSE "\\0"]

\* fault: the age test admits an age equal to the TTL
is_fresh_inclusive(exists, time, mtime) ==
    exists /\ time - mtime <= CACHE_TTL_SECONDS

\* the condition of line 89 on what exists() and getmtime() saw
is_fresh(exists, time, mtime) == exists /\ time - mtime < CACHE_TTL_SECONDS

\* line 89: exists() and getmtime() succeed
LoadCheck(p) ==
    /\ pcOf(p) = "load_check"
    /\ run' = [run EXCEPT ![p] =
                 [@ EXCEPT !.load_seen = [exists |-> file.exists,
                                          age |-> now - file.mtime],
                           !.pc = IF is_fresh(file.exists, now, file.mtime)
                                  THEN "load_read" ELSE "vm_query"]]
    /\ UNCHANGED <<now, file, calls, out, saved>>

\* lines 90-91: open and read succeed; load_cache_if_fresh returns the text
LoadRead(p) ==
    /\ pcOf(p) = "load_read"
    /\ run' = [run EXCEPT ![p] = [@ EXCEPT !.cached = file.content,
                                           !.pc = "serve_cache"]]
    /\ UNCHANGED <<now, file, calls, out, saved>>

\* lines 92-94: getmtime, open or read raises; load_cache_if_fresh returns None
LoadFail(p) ==
    /\ pcOf(p) \in {"load_check", "load_read"}
    /\ file.exists
    /\ run' = [run EXCEPT ![p] =
                 [@ EXCEPT !.cached = None,
                           !.read_failed = TRUE,
                           !.load_seen = IF pcOf(p) = "load_check"
                                         THEN [exists |-> file.exists,
                                               age |-> now - file.mtime]
                                         ELSE @,
                           !.pc = "vm_query"]]
    /\ UNCHANGED <<now, file, calls, out, saved>>

\* fault: serving the cache renews the file's modification time
ServeCache_touch(p) ==
    /\ pcOf(p) = "serve_cache"
    /\ out' = [out EXCEPT ![p] = Append(@, run[p].cached)]
    /\ run' = [run EXCEPT ![p].pc = "done"]
    /\ file' = [file EXCEPT !.mtime = now]
    /\ UNCHANGED <<now, calls, saved>>

\* lines 157-159: print(cached); return
ServeCache(p) ==
    /\ pcOf(p) = "serve_cache"
    /\ out' = [out EXCEPT ![p] = Append(@, run[p].cached)]
    /\ run' = [run EXCEPT ![p].pc = "done"]
    /\ UNCHANGED <<now, file, calls, saved>>

(***************************************************************************)
(* The three data sources, one az call per step                            *)
(***************************************************************************)
Logged(p, src, token, r) ==
    IF calls[p] # <<>> /\ calls[p][1].src = src
    THEN Append(calls[p], [src |-> src, token |-> token, r |-> r])
    ELSE << [src |-> src, token |-> token, r |-> r] >>

\* one pass of the loop of graph_query_all(vm_query), then line 184
VmCall(p, r) ==
    /\ pcOf(p) = "vm_query"
    /\ LET it == graph_query_iter(run[p].results, r) IN
       run' = [run EXCEPT ![p] =
                 IF IsRaised(it)
                 THEN [@ EXCEPT !.error = it.raised, !.pc = "raised"]
                 ELSE IF it.returned
                 THEN [@ EXCEPT !.vms = it.value, !.results = <<>>,
                                !.skip_token = None, !.pc = "nic_query"]
                 ELSE [@ EXCEPT !.results = it.results,
                                !.skip_token = it.skip_token]]
    /\ calls' = [calls EXCEPT ![p] = Logged(p, "vm", run[p].skip_token, r)]
    /\ UNCHANGED <<now, file, out, saved>>

\* one pass of the loop of graph_query_all(nic_query), then line 185
NicCall(p, r) ==
    /\ pcOf(p) = "nic_query"
    /\ LET it == graph_query_iter(run[p].results, r) IN
       run' = [run EXCEPT ![p] =
                 IF IsRaised(it)
                 THEN [@ EXCEPT !.error = it.raised, !.pc = "raised"]
                 ELSE IF it.returned
                 THEN [@ EXCEPT !.nics = it.value, !.results = <<>>,
                                !.skip_token = None, !.pc = "mde_query"]
                 ELSE [@ EXCEPT !.results = it.results,
                                !.skip_token = it.skip_token]]
    /\ calls' = [calls EXCEPT ![p] = Logged(p, "nic", run[p].skip_token, r)]
    /\ UNCHANGED <<now, file, out, saved>>

\* one pass of the loop of get_mde_windows_machine_keys, then line 186
MdeCall(p, r) ==
    /\ pcOf(p) = "mde_query"
    /\ LET it == mde_keys_iter(run[p].keys, r) IN
       run' = [run EXCEPT ![p] =
                 IF IsRaised(it)
                 THEN [@ EXCEPT !.error = it.raised, !.pc = "raised"]
                 ELSE IF it.returned
                 THEN [@ EXCEPT !.mde_windows_keys = it.value, !.keys = {},
                                !.url = MDE_URL, !.pc = "join"]
                 ELSE [@ EXCEPT !.keys = it.keys, !.url = it.url]]
    /\ calls' = [calls EXCEPT ![p] = Logged(p, "mde", run[p].url, r)]
    /\ UNCHANGED <<now, file, out, saved>>

\* fault: the document is printed right after the join and never saved
Join_skips_save(p) ==
    /\ pcOf(p) = "join"
    /\ LET inv == BuildInventory(run[p].vms, run[p].nics,
                                 run[p].mde_windows_keys) IN
       run' = [run EXCEPT ![p] =
                 IF IsRaised(inv)
                 THEN [@ EXCEPT !.error = inv.raised, !.pc = "raised"]
                 ELSE [@ EXCEPT !.inventory = inv, !.pc = "emit"]]
    /\ calls' = [calls EXCEPT ![p] = <<>>]
    /\ UNCHANGED <<now, file, out, saved>>

\* lines 189-251: the inventory of this run, or the end of the run by the
\* KeyError of line 223
Join(p) ==
    /\ pcOf(p) = "join"
    /\ LET inv == BuildInventory(run[p].vms, run[p].nics,
                                 run[p].mde_windows_keys) IN
       run' = [run EXCEPT ![p] =
                 IF IsRaised(inv)
                 THEN [@ EXCEPT !.error = inv.raised, !.pc = "raised"]
                 ELSE [@ EXCEPT !.inventory = inv, !.pc = "save_open"]]
    /\ calls' = [calls EXCEPT ![p] = <<>>]
    /\ UNCHANGED <<now, file, out, saved>>

(***************************************************************************)
(* save_cache, one system call per step, and the print                     *)
(***************************************************************************)
\* fault: the file is opened in append mode
SaveOpen_append(p) ==
    /\ pcOf(p) = "save_open"
    /\ file' = [exists |-> TRUE, mtime |-> now, content |-> file.content]
    /\ run' = [run EXCEPT ![p] = [@ EXCEPT !.wpos = Len(file.content),
                                           !.wbuf = dump(run[p].inventory),
                                           !.pc = "save_write"]]
    /\ saved' = [ p |-> p, payload |-> run[p].inventory, state |-> "writing",
                  writer |-> saved.writer,
                  any_good |-> saved.any_good, good |-> saved.good ]
    /\ UNCHANGED <<now, calls, out>>

\* fault: the payload written is the inventory as it was before the join
SaveOpen_unjoined(p) ==
    /\ pcOf(p) = "save_open"
    /\ file' = [exists |-> TRUE, mtime |-> now, content |-> <<>>]
    /\ run' = [run EXCEPT ![p] = [@ EXCEPT !.wpos = 0,
                                           !.wbuf = dump(empty_inventory),
                                           !.pc = "save_write"]]
    /\ saved' = [ p |-> p, payload |-> run[p].inventory, state |-> "writing",
                  writer |-> saved.writer,
                  any_good |-> saved.any_good, good |-> saved.good ]
    /\ UNCHANGED <<now, calls, out>>

\* line 98: open(CACHE_FILE, "w") creates or truncates the file
SaveOpen(p) ==
    /\ pcOf(p) = "save_open"
    /\ file' = [exists |-> TRUE, mtime |-> now, content |-> <<>>]
    /\ run' = [run EXCEPT ![p] = [@ EXCEPT !.wpos = 0,
                                           !.wbuf = dump(run[p].inventory),
                                           !.pc = "save_write"]]
    /\ saved' = [ p |-> p, payload |-> run[p].inventory, state |-> "writing",
                  writer |-> saved.writer,
                  any_good |-> saved.any_good, good |-> saved.good ]
    /\ UNCHANGED <<now, calls, out>>

\* line 99: the buffered text reaches the file, IO_BLOCK characters per write
SaveWrite(p, blockSize) ==
    /\ pcOf(p) = "save_write"
    /\ LET n == IF Len(run[p].wbuf) < blockSize THEN Len(run[p].wbuf)
                ELSE blockSize
           chunk == SubSeq(run[p].wbuf, 1, n)
           rest == SubSeq(run[p].wbuf, n + 1, Len(run[p].wbuf))
       IN /\ file' = [file EXCEPT !.content = WriteAt(@, run[p].wpos, chunk),
                                  !.mtime = now]
          /\ run' = [run EXCEPT ![p] =
                       [@ EXCEPT !.wpos = @ + n, !.wbuf = rest,
                                 !.pc = IF rest = <<>> THEN "emit"
                                        ELSE "save_write"]]
          /\ saved' = IF rest = <<>> /\ saved.p = p
                      THEN [saved EXCEPT
                              !.state = "complete", !.writer = p,
                              !.any_good = @ \/ run[p].vms # <<>>,
                              !.good = IF run[p].vms # <<>>
                                       THEN run[p].inventory ELSE @]
                      ELSE [saved EXCEPT !.writer = p]
    /\ UNCHANGED <<now, calls, out>>

\* fault: the exception of open or write is not caught and ends the run
SaveFail_raises(p) ==
    /\ pcOf(p) \in {"save_open", "save_write"}
    /\ run' = [run EXCEPT ![p] = [@ EXCEPT !.wbuf = <<>>,
                                           !.save_failed = TRUE,
                                           !.pc = "done"]]
    /\ saved' = IF pcOf(p) = "save_write" /\ saved.p = p
                THEN [saved EXCEPT !.state = "failed"]
                ELSE saved
    /\ UNCHANGED <<now, file, calls, out>>

\* lines 100-102: open or a write raises; the exception is swallowed
SaveFail(p) ==
    /\ pcOf(p) \in {"save_open", "save_write"}
    /\ run' = [run EXCEPT ![p] = [@ EXCEPT !.wbuf = <<>>,
                                           !.save_failed = TRUE,
                                           !.pc = "emit"]]
    /\ saved' = IF pcOf(p) = "save_write" /\ saved.p = p
                THEN [saved EXCEPT !.state = "failed"]
                ELSE saved
    /\ UNCHANGED <<now, file, calls, out>>

\* lines 192 and 255: print(json.dumps(inv, indent=2))
Emit(p) ==
    /\ pcOf(p) = "emit"
    /\ out' = [out EXCEPT ![p] = Append(@, dumps(run[p].inventory, 2))]
    /\ run' = [run EXCEPT ![p].pc = "done"]
    /\ UNCHANGED <<now, file, calls, saved>>

\* the program is started again
Restart(p) ==
    /\ pcOf(p) \in {"done", "raised"}
    /\ run' = [run EXCEPT ![p] = FreshRun]
    /\ out' = [out EXCEPT ![p] = <<>>]
    /\ calls' = [calls EXCEPT ![p] = <<>>]
    /\ UNCHANGED <<now, file, saved>>

(***************************************************************************)
(* Inputs: the strings and records the backends answer with                *)
(***************************************************************************)
S_vm1 == <<"v","m","1">>

S_vm1_padded == <<"\r"," ","v","m","1","\f","\n">>

S_VM2 == <<"V","M","2">>

S_blank == <<" ","\t","\r">>

S_vm2 == <<"v","m","2">>

S_canonical == <<"C","a","n","o","n","i","c","a","l">>

S_cisco ==
    <<"C","i","s","c","o"," ","S","y","s","t","e","m","s",","," ","I","n","c",".">>

S_rg == <<"r","g">>

S_loc == <<"e","u">>

S_nic1 == <<"/","n","i","c","/","1">>

S_id1 == <<"/","V","M","S","/","1">>

S_ip == <<" ","1","0",".","0",".","0",".","4"," ">>

S_tok1 == <<"t","o","k","1">>

S_tok2 == <<"t","o","k","2">>

S_text == <<"{",".",".",".","}">>

VMRec(name, osType, publisher, nicId, id) ==
    [ name |-> name, resourceGroup |-> S_rg, location |-> S_loc,
      osType |-> osType, publisher |-> publisher, nicId |-> nicId, id |-> id ]

NICRec(id, privateIp) == [id |-> id, privateIp |-> privateIp]

Machine(osPlatform, azureVmId, computerDnsName) ==
    [ osPlatform |-> osPlatform, azureVmId |-> azureVmId,
      computerDnsName |-> computerDnsName ]

vmLinux == VMRec(S_vm1, Linux, S_canonical, S_nic1, None)

vmWindows == VMRec(S_VM2, Windows, None, None, None)

nic1 == NICRec(S_nic1, S_ip)

machine2 == Machine(Windows, S_id1, S_VM2 \o <<".">> \o S_loc)

\* az ran and printed the JSON object payload
Ok(payload) == Completed(0, S_text, payload)

\* a VM record that lacks the column publisher
vmNoPublisher ==
    [ name |-> S_vm2, resourceGroup |-> S_rg, location |-> S_loc,
      osType |-> Windows, nicId |-> None ]

\* the four ways a call fails that the clients catch: timeout, non-zero exit
\* (whatever it printed), blank output, output json.loads rejects
Failures ==
    { TimeoutExpired,
      Completed(1, S_text, [data |-> <<vmLinux>>, value |-> <<machine2>>]),
      Completed(0, <<>>, JSONDecodeError),
      Completed(0, <<"\n">>, JSONDecodeError),
      Completed(0, <<"<">>, JSONDecodeError) }

\* the outcomes of a call that end the run by an exception: az cannot be
\* started, its output is no UTF-8 text, or it prints JSON that is no object
\* ([1], "x", 1, true)
Raising ==
    { AzRaises("FileNotFoundError"),
      AzRaises("UnicodeDecodeError"),
      Ok(NotAnObject(TRUE)) }

(***************************************************************************)
(* Bounds                                                                  *)
(***************************************************************************)
\* pages one data source is asked for in one run
MaxPages == 2

\* clock ticks in one behaviour
MaxTicks == 2

\* characters one write call moves to the file
IO_BLOCK == 256

TickSeconds == CACHE_TTL_SECONDS \div 2

PagesSoFar(p, src) ==
    IF calls[p] # <<>> /\ calls[p][1].src = src THEN Len(calls[p]) ELSE 0

\* the pass it of a query loop was the last one
Ends(it) == IF IsRaised(it) THEN TRUE ELSE it.returned

\* the backend stops handing out continuation tokens at the page bound
WithinPages(p, src, returned, pages) ==
    returned \/ PagesSoFar(p, src) + 1 < pages

VmStep(p, answers, pages) ==
    \E r \in answers :
        /\ pcOf(p) = "vm_query"
        /\ WithinPages(p, "vm", Ends(graph_query_iter(run[p].results, r)),
                       pages)
        /\ VmCall(p, r)

NicStep(p, answers, pages) ==
    \E r \in answers :
        /\ pcOf(p) = "nic_query"
        /\ WithinPages(p, "nic", Ends(graph_query_iter(run[p].results, r)),
                       pages)
        /\ NicCall(p, r)

MdeStep(p, answers, pages) ==
    \E r \in answers :
        /\ pcOf(p) = "mde_query"
        /\ WithinPages(p, "mde", Ends(mde_keys_iter(run[p].keys, r)), pages)
        /\ MdeCall(p, r)

Tick ==
    /\ now + TickSeconds <= MaxTicks * TickSeconds
    /\ now' = now + TickSeconds
    /\ UNCHANGED <<file, run, calls, out, saved>>

(***************************************************************************)
(* Spec: runs of the program one after another, against backends that may  *)
(* fail in any call, with cache I/O that may fail, while time passes       *)
(***************************************************************************)
RunVmAnswers ==
    Failures \cup { AzRaises("FileNotFoundError") } \cup
                { Ok([data |-> <<vmWindows, vmLinux>>]),
                    Ok([data |-> <<>>]),
                    Ok([data |-> <<>>, skipToken |-> S_tok1]) }

RunNicAnswers == {TimeoutExpired, Ok([data |-> <<nic1>>])}

RunMdeAnswers == {TimeoutExpired, Ok([value |-> <<machine2>>])}

Off == [FreshRun EXCEPT !.pc = "off"]

Init ==
    /\ now = 0
    /\ file = NoFile
    /\ run = [p \in Procs |-> IF p = 1 THEN FreshRun ELSE Off]
    /\ calls = [p \in Procs |-> <<>>]
    /\ out = [p \in Procs |-> <<>>]
    /\ saved = NoSave

Next ==
    \/ Tick
    \/ LoadCheck(1)
    \/ LoadRead(1)
    \/ LoadFail(1)
    \/ ServeCache(1)
    \/ VmStep(1, RunVmAnswers, MaxPages)
    \/ NicStep(1, RunNicAnswers, MaxPages)
    \/ MdeStep(1, RunMdeAnswers, MaxPages)
    \/ Join(1)
    \/ SaveOpen(1)
    \/ SaveWrite(1, IO_BLOCK)
    \/ SaveFail(1)
    \/ Emit(1)
    \/ Restart(1)

Spec == Init /\ [][Next]_vars

\* the run of process p computed its document (no cache hit) and has ended
Computed(p) == pcOf(p) = "done" /\ run[p].cached = None

\* json.dumps(empty_inventory(), indent=2), spelled out
CanonicalEmptyText ==
    <<"{","\n"," "," ","\"","_","m","e","t","a","\"",":"," ","{","\n"," ",
      " "," "," ","\"","h","o","s","t","v","a","r","s","\"",":"," ","{","}",
      "\n"," "," ","}",",","\n"," "," ","\"","a","l","l","\"",":"," ","{",
      "\n"," "," "," "," ","\"","h","o","s","t","s","\"",":"," ","[","]",
      "\n"," "," ","}",",","\n"," "," ","\"","l","i","n","u","x","\"",":",
      " ","{","\n"," "," "," "," ","\"","h","o","s","t","s","\"",":"," ",
      "[","]","\n"," "," ","}",",","\n"," "," ","\"","w","i","n","d","o",
      "w","s","\"",":"," ","{","\n"," "," "," "," ","\"","h","o","s","t",
      "s","\"",":"," ","[","]","\n"," "," ","}",",","\n"," "," ","\"","n",
      "e","t","w","o","r","k","_","a","p","p","l","i","a","n","c","e","s",
      "\"",":"," ","{","\n"," "," "," "," ","\"","h","o","s","t","s","\"",
      ":"," ","[","]","\n"," "," ","}",",","\n"," "," ","\"","w","i","n",
      "d","o","w","s","_","m","d","e","_","o","n","b","o","a","r","d","e",
      "d","\"",":"," ","{","\n"," "," "," "," ","\"","h","o","s","t","s",
      "\"",":"," ","[","]","\n"," "," ","}",",","\n"," "," ","\"","w","i",
      "n","d","o","w","s","_","m","d","e","_","n","o","t","_","o","n","b",
      "o","a","r","d","e","d","\"",":"," ","{","\n"," "," "," "," ","\"",
      "h","o","s","t","s","\"",":"," ","[","]","\n"," "," ","}","\n","}">>

\* C3: if the VM query returns no records, whatever the NIC and onboarding
\* key queries return, the run emits the canonical empty InventoryDocument:
\* empty hostvars and the six groups with empty hosts lists.
C3_EmptyInventoryWhenNoVms ==
    \A p \in Procs :
        (Computed(p) /\ run[p].vms = <<>>) =>
            /\ out[p] = <<CanonicalEmptyText>>
            /\ loads(out[p][1]) = ToJson(empty_inventory)

\* the VM query returned nothing while NICs and onboarding keys were found
C3_Witness ==
    /\ Computed(1)
    /\ run[1].vms = <<>>
    /\ run[1].nics # <<>>
    /\ run[1].mde_windows_keys # {}
    /\ out[1] = <<CanonicalEmptyText>>

\* load_cache_if_fresh has returned in the run of process p
Loaded(p) == pcOf(p) \notin {"off", "load_check", "load_read"}

\* C6: load_cache_if_fresh returns the file's content if and only if the
\* file exists, is readable and its age is strictly less than 300 seconds;
\* otherwise it returns no cache and the run recomputes the inventory.
C6_ContentIffFresh ==
    \A p \in Procs :
        /\ Loaded(p) =>
             (run[p].cached # None <=>
                 /\ run[p].load_seen.exists
                 /\ run[p].load_seen.age < 300
                 /\ ~run[p].read_failed)
        /\ pcOf(p) = "serve_cache" => run[p].cached = file.content
        /\ (Loaded(p) /\ run[p].cached = None /\ pcOf(p) = "done") =>
             out[p] = <<dumps(run[p].inventory, 2)>>
        /\ (pcOf(p) = "done" /\ run[p].cached # None) =>
             out[p] = <<run[p].cached>>

\* a cache written earlier is returned at an age between 0 and the TTL
C6_Witness ==
    /\ pcOf(1) = "serve_cache"
    /\ run[1].load_seen.age > 0
    /\ run[1].load_seen.age < 300
    /\ run[1].cached = file.content
    /\ run[1].cached # <<>>

\* C7: save_cache(doc) that succeeds, followed by load_cache_if_fresh before
\* the TTL elapses with no other write in between, returns content equal to
\* doc.
C7_SaveLoadRoundTrip ==
    \A p \in Procs :
        (pcOf(p) = "serve_cache" /\ saved.state = "complete") =>
            /\ run[p].cached = dump(saved.payload)
            /\ loads(run[p].cached) = ToJson(saved.payload)

\* a document with hosts was saved and is loaded again
C7_Witness ==
    /\ pcOf(1) = "serve_cache"
    /\ saved.state = "complete"
    /\ saved.payload["all"].hosts # <<>>
    /\ loads(run[1].cached) = ToJson(saved.payload)

\* no save_cache call is between its open and its last write
NoWriteInProgress == \A p \in Procs : pcOf(p) # "save_write"

\* C8 as claimed: the cache file, when it exists, contains the document of
\* the most recent non-cached run whose VM query returned records.
C8_CacheHoldsLastRunWithRecords ==
    (file.exists /\ NoWriteInProgress /\ saved.state = "complete"
        /\ saved.any_good)
        => file.content = dump(saved.good)

\* s is an initial part of t
IsPrefix(s, t) == Len(s) <= Len(t) /\ s = SubSeq(t, 1, Len(s))

\* C8 as amended: after any sequence of runs the cache file, when it exists,
\* contains what save_cache wrote of the document of the most recent
\* non-cached run that opened it, whether or not the VM query of that run
\* returned records: the complete document when that save_cache succeeded,
\* an initial part of its text when it failed.
C8_CacheHoldsLastSavedRun ==
    /\ file.exists =>
          /\ saved.state # "none"
          /\ IsPrefix(file.content, dump(saved.payload))
          /\ (NoWriteInProgress /\ saved.state = "complete") =>
                /\ file.content = dump(saved.payload)
                /\ loads(file.content) = ToJson(saved.payload)
    /\ \A p \in Procs :
          (pcOf(p) \in {"emit", "done"} /\ run[p].cached = None
              /\ ~run[p].save_failed)
              => /\ saved.state = "complete"
                 /\ saved.payload = run[p].inventory

\* a run whose VM query returned nothing has overwritten the document of an
\* earlier run whose VM query returned records
C8_Witness ==
    /\ file.exists
    /\ NoWriteInProgress
    /\ saved.state = "complete"
    /\ saved.any_good
    /\ saved.payload = empty_inventory
    /\ saved.good # empty_inventory
    /\ file.content = dump(empty_inventory)

\* C9: cache I/O failures never change what a run emits: with a failed
\* save_cache the run emits the document it computed, the same text as with
\* a successful one; with a failed cache read the run goes on as on a miss.
C9_CacheFailuresKeepOutput ==
    \A p \in Procs :
        /\ Computed(p) =>
             out[p] = <<dumps(BuildInventory(run[p].vms, run[p].nics,
                                             run[p].mde_windows_keys), 2)>>
        /\ run[p].read_failed =>
             /\ run[p].cached = None
             /\ pcOf(p) \in {"vm_query", "nic_query", "mde_query", "join",
                             "save_open", "save_write", "emit", "done",
                             "raised"}

\* a run whose cache read and cache write both failed has emitted the
\* document of its VM records
C9_Witness ==
    /\ Computed(1)
    /\ run[1].read_failed
    /\ run[1].save_failed
    /\ run[1].vms # <<>>
    /\ out[1] = <<dumps(run[1].inventory, 2)>>

\* a step of the run of p from the cache check to the print of the cache
CacheHitStep(p) ==
    /\ (pcOf(p) \in {"load_check", "load_read", "serve_cache"}
           /\ run[p]' # run[p]) =>
          /\ file' = file
          /\ calls' = calls
          /\ saved' = saved
    /\ (pcOf(p) = "load_read" /\ run[p].cached' # None) =>
          /\ pcOf(p)' = "serve_cache"
          /\ out[p]' = <<>>
    /\ (pcOf(p) = "serve_cache" /\ run[p]' # run[p]) =>
          /\ pcOf(p)' = "done"
          /\ run[p].cached = file.content
          /\ out[p]' = <<run[p].cached>>
          /\ calls[p] = <<>>

\* C16: a run that finds a fresh cache emits the cached content verbatim
\* and leaves everything else unchanged: it makes no VM, NIC or
\* onboarding-key call and does not write or touch the cache file, whose
\* content and modification time are the same after the run as before.
C16_CacheHitChangesNothing == [][\A p \in Procs : CacheHitStep(p)]_vars

\* a run has printed a cache that an earlier run wrote some time ago
C16_Witness ==
    /\ pcOf(1) = "done"
    /\ run[1].cached # None
    /\ out[1] = <<run[1].cached>>
    /\ file.content = run[1].cached
    /\ file.mtime < now
    /\ now - file.mtime < CACHE_TTL_SECONDS
    /\ calls[1] = <<>>

(***************************************************************************)
(* SpecJoin: the join of main on every list of VM records up to MaxVMs,    *)
(* with the NIC lists and key sets below                                   *)
(***************************************************************************)
\* VM records in the result of the VM query
MaxVMs == 2

JoinNames == {S_vm1, S_vm1_padded, S_VM2, S_blank, None}

\* <<osType, publisher>>
JoinOsPublisher ==
    { <<Linux, S_canonical>>, <<Linux, S_cisco>>, <<Windows, None>>,
      <<None, S_cisco>> }

\* <<nicId, id>>
JoinNicAndId == { <<None, None>>, <<S_nic1, S_id1>> }

JoinVMs ==
    { VMRec(n, o[1], o[2], i[1], i[2]) :
        n \in JoinNames, o \in JoinOsPublisher, i \in JoinNicAndId }
    \cup { vmNoPublisher }

JoinNicLists == { <<>>, <<nic1>>, <<nic1, NICRec(S_nic1, None)>> }

JoinKeySets == { {}, {S_vm2}, {lower(S_id1)} }

SeqsUpTo(S, n) == UNION {[1..k -> S] : k \in 0..n}

InitJoin ==
    /\ now = 0
    /\ file = NoFile
    /\ \E v \in SeqsUpTo(JoinVMs, MaxVMs), n \in JoinNicLists, k \in JoinKeySets :
         run = [p \in Procs |->
                  IF p = 1
                  THEN [FreshRun EXCEPT !.pc = "join", !.vms = v, !.nics = n,
                                        !.mde_windows_keys = k]
                  ELSE Off]
    /\ calls = [p \in Procs |-> <<>>]
    /\ out = [p \in Procs |-> <<>>]
    /\ saved = NoSave

NextJoin == Join(1)

SpecJoin == InitJoin /\ [][NextJoin]_vars

\* the run of process p has built its inventory
Joined(p) == pcOf(p) \in {"save_open", "save_write", "emit", "done"}
                /\ run[p].cached = None

GroupNames ==
    { "all", "linux", "windows", "network_appliances",
      "windows_mde_onboarded", "windows_mde_not_onboarded" }

Hosts(inventory, group) == Elems(inventory[group].hosts)

\* the host names the VM records give: vm.get("name") stripped, when not empty
VmNames(vmList) ==
    { strip(OrEmpty(vmList[i].name)) : i \in 1..Len(vmList) } \ { <<>> }

\* C1: every host name in any of the six groups is a key of _meta.hostvars
\* and occurs exactly once in all.hosts, whatever the VM records are.
C1_GroupHostsOnceInAll ==
    \A p \in Procs : Joined(p) =>
        \A g \in GroupNames : \A h \in Hosts(run[p].inventory, g) :
            /\ DictHas(run[p].inventory["_meta"].hostvars, h)
            /\ Count(run[p].inventory["all"].hosts, h) = 1

NumberOfOsGroups(inventory, h) ==
    Cardinality({g \in {"linux", "network_appliances", "windows"} :
                    h \in Hosts(inventory, g)})

\* C2: each non-empty VM name is in all.hosts and in exactly one of linux,
\* network_appliances, windows; no name is in windows and also in linux or
\* network_appliances.
C2_ExactlyOneOsGroup ==
    \A p \in Procs : Joined(p) =>
        \A h \in VmNames(run[p].vms) :
            /\ h \in Hosts(run[p].inventory, "all")
            /\ NumberOfOsGroups(run[p].inventory, h) = 1
            /\ ~(/\ h \in Hosts(run[p].inventory, "windows")
                 /\ h \in Hosts(run[p].inventory, "linux")
                          \cup Hosts(run[p].inventory, "network_appliances"))

(***************************************************************************)
(* SpecClassify: the join of main on lists of records chosen for the       *)
(* branches of the classification: Linux with plain, appliance and absent  *)
(* publisher, Windows with and without id, and OS types that are neither   *)
(***************************************************************************)
S_linux == <<"l","i","n","u","x">>

ClassifyNames == {S_vm1, S_VM2, S_blank}

ClassifyVMs ==
    { VMRec(n, Linux, pub, None, None) :
        n \in ClassifyNames, pub \in {S_canonical, S_cisco, None} }
    \cup { VMRec(n, Windows, S_cisco, None, i) :
             n \in ClassifyNames, i \in {None, S_id1} }
    \cup { VMRec(n, o, S_cisco, None, None) :
             n \in ClassifyNames, o \in {None, S_linux} }

InitClassify ==
    /\ now = 0
    /\ file = NoFile
    /\ \E v \in SeqsUpTo(ClassifyVMs, MaxVMs), k \in JoinKeySets :
         run = [p \in Procs |->
                  IF p = 1
                  THEN [FreshRun EXCEPT !.pc = "join", !.vms = v,
                                        !.mde_windows_keys = k]
                  ELSE Off]
    /\ calls = [p \in Procs |-> <<>>]
    /\ out = [p \in Procs |-> <<>>]
    /\ saved = NoSave

SpecClassify == InitClassify /\ [][NextJoin]_vars

\* the host name the record vm gives: vm.get("name") stripped
NameOf(vm) == strip(OrEmpty(vm.name))

\* s with every upper-case letter replaced by its lower-case letter
Folded(s) == [j \in 1..Len(s) |-> LowerChar(s[j])]

\* the number of records of vmList named n that satisfy Test
NumberOf(vmList, n, Test(_)) ==
    Cardinality({i \in 1..Len(vmList) :
                    NameOf(vmList[i]) = n /\ Test(vmList[i])})

\* the id of the record, lower-cased, or its name, lower-cased, is a key
IdOrNameInKeys(vm, keys) ==
    \/ (IF vm.id = None THEN <<>> ELSE Folded(vm.id)) \in keys
    \/ Folded(NameOf(vm)) \in keys

\* C11: for every VM record with OS type Windows and a non-empty name,
\* hostvars[name].mde_onboarded is true exactly when the lower-cased id or
\* the lower-cased name is in the onboarding key set, and the name is in
\* windows_mde_onboarded when it is true and in windows_mde_not_onboarded
\* when it is false.
C11_OnboardedIffIdOrNameKey ==
    \A p \in Procs : Joined(p) =>
        \A i \in 1..Len(run[p].vms) :
            LET vm == run[p].vms[i]
                inv == run[p].inventory
                test == IdOrNameInKeys(vm, run[p].mde_windows_keys)
            IN (vm.osType = Windows /\ NameOf(vm) # <<>>) =>
                 /\ DictHas(inv["_meta"].hostvars, NameOf(vm))
                 /\ LET hv == DictGet(inv["_meta"].hostvars, NameOf(vm))
                    IN /\ "mde_onboarded" \in DOMAIN hv
                       /\ hv.mde_onboarded = test
                 /\ test => NameOf(vm) \in Hosts(inv, "windows_mde_onboarded")
                 /\ ~test =>
                      NameOf(vm) \in Hosts(inv, "windows_mde_not_onboarded")

\* the publisher, compared without regard to case, contains a vendor name
\* of the denylist
HasVendor(vm) ==
    /\ vm.publisher # None
    /\ \E v \in APPLIANCE_PUBLISHERS :
         \E k \in 0..(Len(vm.publisher) - Len(v)) :
            \A j \in 1..Len(v) : LowerChar(vm.publisher[k + j]) = v[j]

LinuxAppliance(vm) == vm.osType = Linux /\ HasVendor(vm)

LinuxPlain(vm) == vm.osType = Linux /\ ~HasVendor(vm)

\* C12: every VM record with OS type Linux and a non-empty name is placed in
\* network_appliances if its publisher, compared case-insensitively,
\* contains a denylisted vendor name, and in linux otherwise; no Linux
\* appliance record is placed in linux. Stated on the document: a name is in
\* network_appliances once per Linux appliance record of that name and in
\* linux once per other Linux record of that name.
C12_LinuxApplianceOrLinux ==
    \A p \in Procs : Joined(p) =>
        \A n \in VmNames(run[p].vms) :
            /\ Count(run[p].inventory["network_appliances"].hosts, n)
                 = NumberOf(run[p].vms, n, LinuxAppliance)
            /\ Count(run[p].inventory["linux"].hosts, n)
                 = NumberOf(run[p].vms, n, LinuxPlain)

\* a Linux record whose publisher is "Cisco Systems, Inc." is in
\* network_appliances and not in linux
C12_Witness ==
    /\ Joined(1)
    /\ \E i \in 1..Len(run[1].vms) :
         /\ run[1].vms[i].osType = Linux
         /\ run[1].vms[i].publisher = S_cisco
         /\ NameOf(run[1].vms[i]) # <<>>
         /\ NameOf(run[1].vms[i]) \in Hosts(run[1].inventory, "network_appliances")
         /\ NameOf(run[1].vms[i]) \notin Hosts(run[1].inventory, "linux")

OtherOs(vm) == vm.osType # Linux /\ vm.osType # Windows

NotLinux(vm) == vm.osType # Linux

IsLinux(vm) == vm.osType = Linux

\* C18: every VM record with a non-empty name whose OS type is neither
\* "Linux" nor "Windows" is placed in windows by the default branch and in
\* neither linux nor network_appliances, whatever its publisher. Stated on
\* the document: a name is in windows once per record of that name that is
\* not Linux, and in linux or network_appliances once per Linux record.
C18_OtherOsInWindows ==
    \A p \in Procs : Joined(p) =>
        \A n \in VmNames(run[p].vms) :
            /\ NumberOf(run[p].vms, n, OtherOs) > 0
                 => n \in Hosts(run[p].inventory, "windows")
            /\ Count(run[p].inventory["windows"].hosts, n)
                 = NumberOf(run[p].vms, n, NotLinux)
            /\ Count(run[p].inventory["linux"].hosts, n)
               + Count(run[p].inventory["network_appliances"].hosts, n)
                 = NumberOf(run[p].vms, n, IsLinux)

\* a record without OS type and with an appliance publisher is in windows
\* and in neither linux nor network_appliances
C18_Witness ==
    /\ Joined(1)
    /\ \E i \in 1..Len(run[1].vms) :
         /\ run[1].vms[i].osType = None
         /\ HasVendor(run[1].vms[i])
         /\ NameOf(run[1].vms[i]) \in Hosts(run[1].inventory, "windows")
         /\ NameOf(run[1].vms[i]) \notin
               Hosts(run[1].inventory, "linux")
               \cup Hosts(run[1].inventory, "network_appliances")

\* C19: windows_mde_onboarded and windows_mde_not_onboarded partition the
\* windows group: they are disjoint, each is a subset of windows, every host
\* in windows is in one of them and has an mde_onboarded boolean in its
\* hostvars.
C19_MdeGroupsPartitionWindows ==
    \A p \in Procs : Joined(p) =>
        LET inv == run[p].inventory
            on == Hosts(inv, "windows_mde_onboarded")
            off == Hosts(inv, "windows_mde_not_onboarded")
            win == Hosts(inv, "windows")
        IN /\ on \cap off = {}
           /\ on \cup off = win
           /\ \A h \in win :
                /\ DictHas(inv["_meta"].hostvars, h)
                /\ "mde_onboarded" \in
                      DOMAIN DictGet(inv["_meta"].hostvars, h)
                /\ DictGet(inv["_meta"].hostvars, h).mde_onboarded
                      \in BOOLEAN

(***************************************************************************)
(* SpecQuery: the three data sources of one run after a cache miss,        *)
(* against backends that page, fail, and answer with every shape of object *)
(* the clients read                                                        *)
(***************************************************************************)
QueryPages == MaxPages + 2

EmptyObject == [k \in {} |-> 0]

NextLink(url) == "@odata.nextLink" :> url

S_next == <<"h","t","t","p","s",":","/","/","n","e","x","t">>

S_dns1 == <<"V","M","1",".","c","o","r","p">>

machineLinux == Machine(Linux, S_id1, S_dns1)

machineNoId == Machine(Windows, None, S_dns1)

S_dotted == <<".","c","o","r","p">>

\* a machine whose DNS name has an empty leading label
machineDotted == Machine(Windows, None, S_dotted)

QueryVmAnswers ==
    Failures \cup Raising \cup
    { Ok(NotAnObject(FALSE)),
      Ok([data |-> Null]),
      Ok([data |-> <<vmLinux>>]),
      Ok([data |-> <<vmWindows>>, skipToken |-> S_tok1]),
      Ok([data |-> <<vmLinux>>, skip_token |-> S_tok2]),
      Ok([skipToken |-> <<>>, skip_token |-> S_tok1]),
      Ok([data |-> <<vmWindows>>, skipToken |-> <<>>]),
      Ok(EmptyObject) }

QueryNicAnswers ==
    { TimeoutExpired, Ok([data |-> <<nic1>>]),
      Ok([data |-> <<nic1>>, skipToken |-> S_tok1]) }

QueryMdeAnswers ==
    Failures \cup Raising \cup
    { Ok(NotAnObject(FALSE)),
      Ok([value |-> Null]),
      Ok([value |-> <<machine2>>]),
      Ok([value |-> <<machine2, machineLinux>>] @@ NextLink(S_next)),
      Ok([value |-> <<machineNoId>>] @@ NextLink(S_next)),
      Ok([value |-> <<machineDotted>>]),
      Ok(NextLink(<<>>)),
      Ok(EmptyObject) }

InitQuery ==
    /\ now = 0
    /\ file = NoFile
    /\ run = [p \in Procs |->
                IF p = 1 THEN [FreshRun EXCEPT !.pc = "vm_query"] ELSE Off]
    /\ calls = [p \in Procs |-> <<>>]
    /\ out = [p \in Procs |-> <<>>]
    /\ saved = NoSave

NextQuery ==
    \/ VmStep(1, QueryVmAnswers, QueryPages)
    \/ NicStep(1, QueryNicAnswers, QueryPages)
    \/ MdeStep(1, QueryMdeAnswers, QueryPages)

SpecQuery == InitQuery /\ [][NextQuery]_vars

\* the call ended in an exception the clients do not catch, or in JSON that
\* is no object: none of the outcomes a client handles
Unhandled(r) ==
    \/ AzRaised(r)
    \/ /\ ~r.timeout
       /\ r.returncode = 0
       /\ strip(r.stdout.raw) # <<>>
       /\ r.stdout.parsed # JSONDecodeError
       /\ ~IsObject(r.stdout.parsed)

\* the call ended in none of: timeout, non-zero exit, blank output,
\* unparsable JSON, and printed a JSON object
CallSucceeded(r) ==
    /\ ~r.timeout
    /\ ~Unhandled(r)
    /\ r.returncode = 0
    /\ strip(r.stdout.raw) # <<>>
    /\ r.stdout.parsed # JSONDecodeError

AllSucceeded(log) == \A i \in 1..Len(log) : CallSucceeded(log[i].r)

RECURSIVE ConcatData(_)
\* the data arrays of the pages of log, in page order
ConcatData(log) ==
    IF log = <<>> THEN <<>>
    ELSE GetList(Head(log).r.stdout.parsed, "data") \o ConcatData(Tail(log))

\* the data source src of process p has just returned
Fetched(p, src) ==
    /\ calls[p] # <<>>
    /\ calls[p][1].src = src
    /\ pcOf(p) = (CASE src = "vm" -> "nic_query"
                    [] src = "nic" -> "mde_query"
                    [] src = "mde" -> "join")

\* C4: graph_query_all returns the concatenation, in page order, of the data
\* arrays of all pages when every page call succeeded, and the empty list
\* when any call failed (timeout, non-zero exit, blank output, unparsable
\* JSON), even after successful pages; after such a failure no exception is
\* raised.
C4_AllPagesOrEmpty ==
    \A p \in Procs :
        /\ (pcOf(p) = "raised" /\ calls[p] # <<>>
               /\ calls[p][1].src \in {"vm", "nic"})
             => Unhandled(calls[p][Len(calls[p])].r)
        /\ Fetched(p, "vm") =>
             run[p].vms = IF AllSucceeded(calls[p]) THEN ConcatData(calls[p])
                          ELSE <<>>
        /\ Fetched(p, "nic") =>
             run[p].nics = IF AllSucceeded(calls[p]) THEN ConcatData(calls[p])
                           ELSE <<>>

\* a page with records succeeded, a later page failed, and nothing is returned
C4_Witness ==
    /\ Fetched(1, "vm")
    /\ Len(calls[1]) >= 2
    /\ CallSucceeded(calls[1][1].r)
    /\ ConcatData(<<calls[1][1]>>) # <<>>
    /\ ~CallSucceeded(calls[1][Len(calls[1])].r)
    /\ run[1].vms = <<>>

\* C5: get_mde_windows_machine_keys returns the empty key set when the
\* request for any page fails, also after successful pages.
C5_KeysEmptyOnAnyFailure ==
    \A p \in Procs :
        (Fetched(p, "mde") /\ ~AllSucceeded(calls[p]))
            => run[p].mde_windows_keys = {}

\* the continuation token the answer r carries, None when the call failed
\* or the response has none
Continuation(r) ==
    IF ~CallSucceeded(r) THEN None
    ELSE LET payload == r.stdout.parsed
             a == IF "skipToken" \in DOMAIN payload
                  THEN payload["skipToken"] ELSE None
             b == IF "skip_token" \in DOMAIN payload
                  THEN payload["skip_token"] ELSE None
         IN IF a # None /\ a # <<>> THEN a
            ELSE IF b # None /\ b # <<>> THEN b
            ELSE None

\* the calls of graph_query_all for the data source src in the run of p
QueryCalls(p, src) ==
    IF calls[p] # <<>> /\ calls[p][1].src = src THEN calls[p] ELSE <<>>

\* C14: graph_query_all makes its first call without a token and each later
\* call with the token of the preceding response; it makes no call after a
\* token-less response or a failed call, and it returns exactly then: after
\* k successful responses with a token and one without, it has made k+1
\* calls.
C14_CallsFollowTokens ==
    \A p \in Procs : \A src \in {"vm", "nic"} :
        LET log == QueryCalls(p, src) IN
        log # <<>> =>
            /\ log[1].token = None
            /\ \A i \in 2..Len(log) :
                  /\ Continuation(log[i - 1].r) # None
                  /\ log[i].token = Continuation(log[i - 1].r)
            /\ (Fetched(p, src) \/ pcOf(p) = "raised")
                  <=> Continuation(log[Len(log)].r) = None

\* three pages with a token, then a page without: four calls, all records
C14_Witness ==
    /\ Fetched(1, "vm")
    /\ Len(calls[1]) = 4
    /\ AllSucceeded(calls[1])
    /\ \A i \in 1..3 : Continuation(calls[1][i].r) # None
    /\ Continuation(calls[1][4].r) = None
    /\ calls[1][2].token = Continuation(calls[1][1].r)
    /\ run[1].vms = ConcatData(calls[1])

\* C20: the key set returned by get_mde_windows_machine_keys never contains
\* the empty string, so that a VM record without id, whose id key is the
\* empty string, is never marked onboarded through it (here a Windows VM
\* named "rg", the DNS label of no machine).
C20_NoEmptyKey ==
    \A p \in Procs :
        Fetched(p, "mde") =>
            /\ <<>> \notin run[p].mde_windows_keys
            /\ ~is_onboarded(VMRec(S_rg, Windows, None, None, None), S_rg,
                             run[p].mde_windows_keys)

(***************************************************************************)
(* SpecRace: two runs of the program at the same time on one cache file,   *)
(* interleaved at the steps exists/getmtime, read, open, write; no call    *)
(* and no cache I/O fails, and no time passes                              *)
(***************************************************************************)
RaceVmAnswers == { Ok([data |-> <<vmLinux>>]), Ok([data |-> <<>>]) }

RaceNicAnswers == { Ok([data |-> <<nic1>>]) }

RaceMdeAnswers == { Ok([value |-> <<machine2>>]) }

InitRace ==
    /\ now = 0
    /\ file = NoFile
    /\ run = [p \in Procs |-> FreshRun]
    /\ calls = [p \in Procs |-> <<>>]
    /\ out = [p \in Procs |-> <<>>]
    /\ saved = NoSave

NextRace ==
    \E p \in Procs :
        \/ LoadCheck(p)
        \/ LoadRead(p)
        \/ ServeCache(p)
        \/ VmStep(p, RaceVmAnswers, MaxPages)
        \/ NicStep(p, RaceNicAnswers, MaxPages)
        \/ MdeStep(p, RaceMdeAnswers, MaxPages)
        \/ Join(p)
        \/ SaveOpen(p)
        \/ SaveWrite(p, IO_BLOCK)
        \/ Emit(p)

SpecRace == InitRace /\ [][NextRace]_vars

\* the run of process q has passed its document to save_cache
PassedToSave(q) ==
    /\ run[q].cached = None
    /\ pcOf(q) \in {"save_write", "emit", "done"}

\* C10: when two runs interleave at the open-and-truncate, write and read
\* steps of the cache file, every load_cache_if_fresh that returns content
\* returns the complete serialization of a document that some run passed to
\* save_cache, and once both runs have finished the file holds the complete
\* document of the run that wrote last.
C10_RacesBenign ==
    /\ \A p \in Procs :
          pcOf(p) = "serve_cache" =>
              \E q \in Procs :
                  /\ PassedToSave(q)
                  /\ run[p].cached = dump(run[q].inventory)
    /\ ((\A p \in Procs : pcOf(p) = "done") /\ file.exists) =>
          file.content = dump(run[saved.writer].inventory)

(***************************************************************************)
(* SpecRun: one run of the program from its start with no cache file,      *)
(* against backends that page and fail in every way and then stop paging   *)
(* (process 1), next to a run whose VM query is answered with a            *)
(* continuation token on every page (process 2). Every call of process 1   *)
(* returns or times out, so its next step is always taken.                 *)
(***************************************************************************)
OnceVmAnswers ==
    Failures \cup Raising \cup
                { Ok([data |-> <<vmNoPublisher>>]),
                  Ok([data |-> <<vmWindows, vmLinux>>]),
                    Ok([data |-> <<>>]),
                    Ok([data |-> <<vmLinux>>, skipToken |-> S_tok1]) }

OnceNicAnswers ==
    Failures \cup Raising \cup { Ok([data |-> <<nic1>>]),
                    Ok([data |-> <<nic1>>, skipToken |-> S_tok1]) }

OnceMdeAnswers ==
    Failures \cup Raising \cup { Ok([value |-> <<machine2>>]),
                    Ok([value |-> <<machine2>>] @@ NextLink(S_next)) }

\* the backend of process 2: every page carries a token
EndlessAnswers == { Ok([data |-> <<vmLinux>>, skipToken |-> S_tok1]) }

\* pages of the endless backend that are looked at
EndlessPages == MaxPages + 2

InitRun ==
    /\ now = 0
    /\ file = NoFile
    /\ run = [p \in Procs |->
                IF p = 1 THEN FreshRun ELSE [FreshRun EXCEPT !.pc = "vm_query"]]
    /\ calls = [p \in Procs |-> <<>>]
    /\ out = [p \in Procs |-> <<>>]
    /\ saved = NoSave

RunStep ==
    \/ LoadCheck(1)
    \/ VmStep(1, OnceVmAnswers, MaxPages)
    \/ NicStep(1, OnceNicAnswers, MaxPages)
    \/ MdeStep(1, OnceMdeAnswers, MaxPages)
    \/ Join(1)
    \/ SaveOpen(1)
    \/ SaveWrite(1, IO_BLOCK)
    \/ SaveFail(1)
    \/ Emit(1)

\* the two runs share nothing, so process 2 is run after process 1 has ended
EndlessVmStep ==
    \E r \in EndlessAnswers :
        /\ pcOf(1) = "done"
        /\ PagesSoFar(2, "vm") < EndlessPages
        /\ VmCall(2, r)

NextRun == RunStep \/ EndlessVmStep

SpecRun == InitRun /\ [][NextRun]_vars /\ WF_vars(RunStep)

\* the members of the JSON object j as a set of <<key, value>>
Members(j) == {j.v[i] : i \in 1..Len(j.v)}

\* j is a JSON object whose only key is key, holding a value of type t
HoldsOnly(j, key, t) ==
    /\ j.t = "dict"
    /\ Len(j.v) = 1
    /\ j.v[1][1] = key
    /\ j.v[1][2].t = t

\* the text is an InventoryDocument: _meta.hostvars and the six groups,
\* each with a hosts list
IsInventoryDocument(text) ==
    LET doc == loads(text) IN
    /\ doc.t = "dict"
    /\ Len(doc.v) = 7
    /\ {m[1] : m \in Members(doc)} =
          { K_meta, K_all, K_linux, K_windows, K_network_appliances,
            K_windows_mde_onboarded, K_windows_mde_not_onboarded }
    /\ \A m \in Members(doc) :
          IF m[1] = K_meta THEN HoldsOnly(m[2], K_hostvars, "dict")
          ELSE HoldsOnly(m[2], K_hosts, "list")

\* the run of process p has ended without serving the cache: after its
\* print, or by an exception nothing caught
Ended(p) == pcOf(p) \in {"done", "raised"} /\ run[p].cached = None

\* C13: whatever the outcomes of the VM, NIC and onboarding-key calls, a run
\* that does not serve the cache ends with exactly one InventoryDocument
\* emitted, having _meta.hostvars and all six groups; no failure of an
\* external call is surfaced as an error or ends the run without the emit.
C13_OneDocumentWhateverFails ==
    \A p \in Procs :
        /\ Ended(p) =>
             /\ pcOf(p) = "done"
             /\ Len(out[p]) = 1
             /\ IsInventoryDocument(out[p][1])
        /\ (pcOf(p) \notin {"done", "off"}) => out[p] = <<>>

\* the position of a step of main in the order of the run
Rank(pc) ==
    CASE pc = "load_check" -> 1
      [] pc = "vm_query" -> 2
      [] pc = "nic_query" -> 3
      [] pc = "mde_query" -> 4
      [] pc = "join" -> 5
      [] pc = "save_open" -> 6
      [] pc = "save_write" -> 7
      [] pc = "emit" -> 8
      [] pc = "done" -> 9
      [] OTHER -> 0

\* the data source asked at a step of main
SourceAt(pc) ==
    CASE pc = "vm_query" -> "vm"
      [] pc = "nic_query" -> "nic"
      [] pc = "mde_query" -> "mde"
      [] OTHER -> "none"

\* a step of the run of p keeps the order of C15
OrderedStep(p) ==
    /\ \/ pcOf(p)' = pcOf(p)
       \/ Rank(pcOf(p)') = Rank(pcOf(p)) + 1
       \/ pcOf(p) = "save_open" /\ pcOf(p)' = "emit" /\ run[p].save_failed'
       \/ /\ pcOf(p)' = "raised"
          /\ pcOf(p) \in {"vm_query", "nic_query", "mde_query", "join"}
          /\ UNCHANGED <<file, out, saved>>
    /\ (calls[p]' # calls[p] /\ calls[p]' # <<>>) =>
          /\ calls[p]'[Len(calls[p]')].src = SourceAt(pcOf(p))
          /\ \A i \in 1..Len(calls[p]') : calls[p]'[i].src = SourceAt(pcOf(p))
    /\ file' # file => pcOf(p) \in {"save_open", "save_write"}
    /\ out[p]' # out[p] =>
          /\ pcOf(p) = "emit"
          /\ pcOf(p)' = "done"
          /\ out[p]' = <<dumps(run[p].inventory, 2)>>
    /\ pcOf(p)' \in {"emit", "done"} =>
          \/ run[p].save_failed'
          \/ saved'.p = p /\ saved'.state = "complete"

\* C15: every non-cached run performs its steps in this order, one at a
\* time: cache check, all pages of the VM query, all pages of the NIC query,
\* all pages of the onboarding-key query, join, one cache write, one emit;
\* the cache write precedes the emit and no page of a later data source is
\* requested before the earlier data source has finished. A run that an
\* exception ends performs the steps up to there, in this order, and none
\* after.
C15_StepsInOrder == [][OrderedStep(1)]_vars

\* the run has gone through paged VM, NIC and key queries, the write of the
\* cache in more than one block, and the emit
C15_Witness ==
    /\ pcOf(1) = "done"
    /\ Len(out[1]) = 1
    /\ Len(run[1].vms) >= 2
    /\ Len(run[1].nics) >= 2
    /\ saved.state = "complete"
    /\ file.content = dump(run[1].inventory)
    /\ Len(file.content) > IO_BLOCK

\* the run of process p was ended by az() itself: the command could not be
\* started or its output not decoded, so that the call did not return
CallDidNotReturn(p) ==
    /\ pcOf(p) = "raised"
    /\ run[p].error \in {"FileNotFoundError", "UnicodeDecodeError"}

\* C17: provided every external call returns or times out and each paged
\* backend eventually answers without a continuation token or with a
\* failure, the run terminates having emitted a document (process 1);
\* against a backend that returns a continuation token on every page the
\* pagination loop goes on after every page and the run never reaches the
\* emit (process 2).
C17_TerminatesUnlessEndless ==
    /\ <>(\/ pcOf(1) = "done" /\ Len(out[1]) = 1
          \/ CallDidNotReturn(1))
    /\ [](/\ pcOf(2) = "vm_query"
          /\ out[2] = <<>>
          /\ Len(run[2].results) = PagesSoFar(2, "vm"))
====
